---- MODULE Spec2Model ----
(***************************************************************************)
(* Model of the scraping orchestration of ryds-car-hunter_backend:         *)
(* scrapeAllSites / processSite / runInBatches of index.ts.                *)
(*                                                                         *)
(* Node runs one callback at a time: an action of this model is one        *)
(* macrotask, i.e. the settlement of one awaited browser or adapter        *)
(* promise together with every synchronous statement and every promise     *)
(* continuation that runs before the next pending await.                   *)
(***************************************************************************)
EXTENDS Integers, Sequences, FiniteSets, TLC

\* ---------------------------------------------------------------- bounds
\* largest value of the CONCURRENCY_LIMIT environment variable drawn
MaxLimit == 1
\* largest number of cars one extractCars call returns
MaxCars == 1
\* largest number of awaited operations that raise in one run
MaxFaults == 1
\* largest number of sites whose credentials are missing from the environment
MaxMissing == 1
\* largest absolute value of a negative CONCURRENCY_LIMIT drawn
MaxNegative == 1
\* largest distance below zero to which the loop index of runInBatches is followed
MaxSpin == 2

\* ------------------------------------------------------ site configuration
\* Object.values(siteConfigs): insertion order of the siteConfigs literal
siteConfigsArr == <<"bca", "CarToTrade", "motorway", "carwow", "disposalnetwork">>

\* Object.keys(siteConfigs).length
totalSites == Len(siteConfigsArr)

\* a job is the index of its task in the array handed to runInBatches
Jobs == 1..totalSites

\* siteConfig.shouldNavigateToSearchUrl && typeof siteConfig.buildSearchUrl === "function"
shouldNavigateToSearchUrl(j) == siteConfigsArr[j] \in {"bca", "motorway"}

\* adapters whose applyFilters can return early and flag the page so that
\* extractCars returns [] (make or model not offered by the site)
canSkip(j) == siteConfigsArr[j] \in {"carwow", "disposalnetwork"}

\* adapters whose applyFilters is the empty async function
emptyFilters(j) == siteConfigsArr[j] \in {"bca", "motorway"}

\* const context = stagehand.context: the one browser context of the run
context == "stagehand.context"

\* the browser context of the page of job j: newPage = await context.newPage()
pageContext(j) == context

\* --------------------------------------------------------------- values
\* the value a processSite call returns: null, or the extracted array
Null == [null |-> TRUE, cars |-> <<>>]

\* Data as it would be if an empty array were returned as null
DataOrNull(cars) == [null |-> cars = <<>>, cars |-> cars]

\* the array extractCars returned, as the value processSite returns
Data(cars) == [null |-> FALSE, cars |-> cars]

Car(j, n) == [source |-> siteConfigsArr[j], n |-> n]

\* an Error object: the site whose job raised it and the operation that raised
NoError == [site |-> "", error |-> "none"]

\* the arrays extractCars of job j may return
CarLists(j) == { [k \in 1..n |-> Car(j, k)] : n \in 0..MaxCars }

VARIABLES
    CONCURRENCY_LIMIT, \* process.env.CONCURRENCY_LIMIT; 0 stands for unset, "0" or non-numeric
    siteCredentials,   \* site name -> "present", "missing" or "unread"
    onProgress,        \* "none": no callback passed; "registered": the callback of
                       \* /api/scrape-stream; "raising": a callback that may throw
    mainpc,            \* position of scrapeAllSites
    i,                 \* loop index of runInBatches
    results,           \* results array of runInBatches
    allCarData,        \* accumulator of scrapeAllSites
    stagehand,         \* "new", "open" (init done), "closed"
    runError,          \* the error scrapeAllSites rejected with, "none" otherwise
    jobpc,             \* position of each processSite call
    page,              \* newPage of each job: "none", "open", "closed"
    extractedData,     \* value each processSite call returns
    skipFlag,          \* page._...Applied === false, set by applyFilters
    steps,             \* adapter functions each job has invoked, in order
    thrown,            \* the error each job caught or rejected with, "none" otherwise
    currentSiteIndex,  \* completed-job counter
    progress,          \* calls of onProgress, in order
    errorLog,          \* console.error lines of the catch block, in order
    completed,         \* jobs in the order their outcome became known
    faults,            \* number of awaited operations that raised so far
    faultLimit,        \* number of awaited operations that may raise in this run
    response           \* calls made on the res object of the request handler, in order

vars == <<CONCURRENCY_LIMIT, siteCredentials, onProgress, mainpc, i, results,
          allCarData, stagehand, runError, jobpc, page, extractedData, skipFlag,
          steps, thrown, currentSiteIndex, progress, errorLog, completed, faults,
          faultLimit, response>>

\* Number(process.env.CONCURRENCY_LIMIT) || 2
batchSize == IF CONCURRENCY_LIMIT = 0 THEN 2 ELSE CONCURRENCY_LIMIT

\* an argument of Array.prototype.slice as an offset into tasks: a negative
\* one counts from the end, and the offset is clamped to 0..tasks.length
Offset(n) ==
    IF n < 0
    THEN (IF totalSites + n < 0 THEN 0 ELSE totalSites + n)
    ELSE (IF n > totalSites THEN totalSites ELSE n)

\* Slice as it would be if the slice ended one task too late
SliceOneMore(idx) == { k \in Jobs : Offset(idx) < k /\ k <= Offset(idx + batchSize + 1) }

\* tasks.slice(idx, idx + batchSize), as 1-based job indices
Slice(idx) == { k \in Jobs : Offset(idx) < k /\ k <= Offset(idx + batchSize) }

\* Compile as it would be if the loop stopped at the first null result
RECURSIVE CompileStopsAtNull(_)
CompileStopsAtNull(res) ==
    IF res = <<>> THEN <<>>
    ELSE IF Head(res).null THEN <<>>
         ELSE Head(res).cars \o CompileStopsAtNull(Tail(res))

\* the for-of loop over results that fills allCarData
RECURSIVE Compile(_)
Compile(res) ==
    IF res = <<>> THEN <<>>
    ELSE IF Head(res).null THEN Compile(Tail(res))
         ELSE Head(res).cars \o Compile(Tail(res))

\* the credentials entry of a site: "present" when process.env holds a
\* non-empty username and password for it, "missing" otherwise. The
\* environment is fixed for the run and an entry is looked at by one job
\* only, so the entry is drawn when that job looks at it ("unread" before).
Missing == { s \in DOMAIN siteCredentials : siteCredentials[s] = "missing" }

Credentials ==
    IF Cardinality(Missing) < MaxMissing THEN {"present", "missing"} ELSE {"present"}

\* ------------------------------------------------------------- api-server
\* const totalSites = 5 of the /api/scrape-stream handler
connectedTotalSites == 5

\* a call on res: res.write of an SSE message ("connected", "progress",
\* "complete", "error"), res.end() ("end") or res.json ("json")
Call(type) ==
    [type |-> type, siteName |-> "", cars |-> <<>>, totalSites |-> 0,
     currentSite |-> 0, totalCars |-> 0, status |-> 200, success |-> TRUE,
     error |-> "none"]

\* the handler up to its await of scrapeAllSites: /api/scrape-stream writes
\* the head and the connected message, /api/scrape writes nothing
connect(subscriber) ==
    IF subscriber = "registered"
    THEN <<[Call("connected") EXCEPT !.totalSites = connectedTotalSites]>>
    ELSE <<>>

\* writeProgress as it would be if the progress message carried no cars
writeProgressWithoutCars(j, cars) ==
    IF onProgress = "registered"
    THEN Append(response, [Call("progress") EXCEPT !.siteName = siteConfigsArr[j],
                                                   !.totalSites = totalSites,
                                                   !.currentSite = currentSiteIndex + 1])
    ELSE response

\* the onProgress callback of /api/scrape-stream: res.write of a progress message
writeProgress(j, cars) ==
    IF onProgress = "registered"
    THEN Append(response, [Call("progress") EXCEPT !.siteName = siteConfigsArr[j],
                                                   !.cars = cars,
                                                   !.totalSites = totalSites,
                                                   !.currentSite = currentSiteIndex + 1])
    ELSE response

\* onFulfilled as it would be if the stream were left open after complete
onFulfilledLeavesOpen(data) ==
    CASE onProgress = "registered" ->
            response \o <<[Call("complete") EXCEPT !.cars = data, !.totalCars = Len(data)]>>
      [] onProgress = "none" ->
            Append(response, [Call("json") EXCEPT !.cars = data])
      [] OTHER -> response

\* the handler after scrapeAllSites resolved with data: /api/scrape-stream
\* writes the complete message and ends the response, /api/scrape sends
\* { success: true, data }
onFulfilled(data) ==
    CASE onProgress = "registered" ->
            response \o <<[Call("complete") EXCEPT !.cars = data, !.totalCars = Len(data)],
                          Call("end")>>
      [] onProgress = "none" ->
            Append(response, [Call("json") EXCEPT !.cars = data])
      [] OTHER -> response

\* onRejected as it would be if /api/scrape answered without status(500)
onRejectedWithoutStatus(err) ==
    CASE onProgress = "registered" ->
            response \o <<[Call("error") EXCEPT !.error = err], Call("end")>>
      [] onProgress = "none" ->
            Append(response, [Call("json") EXCEPT !.success = FALSE, !.error = err])
      [] OTHER -> response

\* the catch block of the handler after scrapeAllSites rejected with err:
\* /api/scrape-stream writes the error message and ends the response,
\* /api/scrape sends status 500 with { success: false, error }
onRejected(err) ==
    CASE onProgress = "registered" ->
            response \o <<[Call("error") EXCEPT !.error = err], Call("end")>>
      [] onProgress = "none" ->
            Append(response, [Call("json") EXCEPT !.status = 500, !.success = FALSE,
                                                  !.error = err])
      [] OTHER -> response

\* the state in which scrapeAllSites awaits stagehand.init(), for a limit
\* from limits, a subscriber from subscribers and at most allowed raising
\* operations
InitWith(limits, subscribers, allowed) ==
    /\ CONCURRENCY_LIMIT \in limits
    /\ siteCredentials = [s \in {siteConfigsArr[j] : j \in Jobs} |-> "unread"]
    /\ onProgress \in subscribers
    /\ faultLimit = allowed
    /\ response = connect(onProgress)
    /\ mainpc = "init"
    /\ i = 0
    /\ results = <<>>
    /\ allCarData = <<>>
    /\ stagehand = "new"
    /\ runError = NoError
    /\ jobpc = [j \in Jobs |-> "idle"]
    /\ page = [j \in Jobs |-> "none"]
    /\ extractedData = [j \in Jobs |-> Null]
    /\ skipFlag = [j \in Jobs |-> FALSE]
    /\ steps = [j \in Jobs |-> <<>>]
    /\ thrown = [j \in Jobs |-> "none"]
    /\ currentSiteIndex = 0
    /\ progress = <<>>
    /\ errorLog = <<>>
    /\ completed = <<>>
    /\ faults = 0

Init == InitWith(0..MaxLimit, {"none", "registered"}, MaxFaults)

\* ------------------------------------------------------------ runInBatches
\* runInBatches as it would be if the cars collected so far were added to
\* allCarData after every batch
runInBatchesAppendsEarly(idx, res, pcs) ==
    IF idx < totalSites
    THEN /\ mainpc' = "awaitBatch"
         /\ i' = idx
         /\ results' = res
         /\ jobpc' = [k \in Jobs |-> IF k \in Slice(idx) THEN "newPage" ELSE pcs[k]]
         /\ allCarData' = Compile(res)
    ELSE /\ mainpc' = "closing"
         /\ i' = idx
         /\ results' = res
         /\ jobpc' = pcs
         /\ allCarData' = Compile(res)

\* one pass of the for loop of runInBatches from index idx with the results
\* collected so far, given the job positions pcs: either the next slice of
\* tasks is called (each runs to its await of context.newPage()), or the
\* loop ends, scrapeAllSites compiles allCarData and awaits stagehand.close()
runInBatches(idx, res, pcs) ==
    IF idx < totalSites
    THEN /\ mainpc' = "awaitBatch"
         /\ i' = idx
         /\ results' = res
         /\ jobpc' = [k \in Jobs |-> IF k \in Slice(idx) THEN "newPage" ELSE pcs[k]]
         /\ allCarData' = allCarData
    ELSE /\ mainpc' = "closing"
         /\ i' = idx
         /\ results' = res
         /\ jobpc' = pcs
         /\ allCarData' = allCarData \o Compile(res)

\* await stagehand.init() resolves: scrapeAllSites runs on into runInBatches
StagehandInit ==
    /\ mainpc = "init"
    /\ stagehand' = "open"
    /\ runInBatches(0, <<>>, jobpc)
    /\ UNCHANGED <<CONCURRENCY_LIMIT, faultLimit, response, siteCredentials, onProgress, runError, page,
                   extractedData, skipFlag, steps, thrown, currentSiteIndex,
                   progress, errorLog, completed, faults>>

\* await stagehand.init() rejects: scrapeAllSites rejects before any job
StagehandInitFails ==
    /\ mainpc = "init"
    /\ faults < faultLimit
    /\ faults' = faults + 1
    /\ mainpc' = "rejected"
    /\ runError' = [site |-> "", error |-> "init"]
    /\ response' = onRejected("init")
    /\ UNCHANGED <<CONCURRENCY_LIMIT, faultLimit, siteCredentials, onProgress, i, results,
                   allCarData, stagehand, jobpc, page, extractedData, skipFlag,
                   steps, thrown, currentSiteIndex, progress, errorLog, completed>>

\* await stagehand.close() resolves: scrapeAllSites returns allCarData
StagehandClose ==
    /\ mainpc = "closing"
    /\ stagehand' = "closed"
    /\ mainpc' = "resolved"
    /\ response' = onFulfilled(allCarData)
    /\ UNCHANGED <<CONCURRENCY_LIMIT, faultLimit, siteCredentials, onProgress, i, results,
                   allCarData, runError, jobpc, page, extractedData, skipFlag,
                   steps, thrown, currentSiteIndex, progress, errorLog, completed,
                   faults>>

\* ------------------------------------------------------------- processSite
\* Increment as it would be if the counter were left alone
IncrementForgotten(c) == c

\* currentSiteIndex++
Increment(c) == c + 1

\* the currentSite argument of onProgress: currentSiteIndex + 1
Ordinal(c) == c + 1

\* emitProgress as it would be if an empty array were not reported
emitProgressNonEmpty(j, cars) ==
    IF onProgress # "none" /\ cars # <<>>
    THEN Append(progress, [siteName |-> siteConfigsArr[j],
                           cars |-> cars,
                           totalSites |-> totalSites,
                           currentSite |-> currentSiteIndex + 1])
    ELSE progress

\* if (onProgress && extractedData) onProgress(siteConfig.name, extractedData,
\* totalSites, currentSiteIndex + 1): the calls of onProgress after this one;
\* an array, also an empty one, is truthy
emitProgress(j, cars) ==
    IF onProgress # "none"
    THEN Append(progress, [siteName |-> siteConfigsArr[j],
                           cars |-> cars,
                           totalSites |-> totalSites,
                           currentSite |-> Ordinal(currentSiteIndex)])
    ELSE progress

\* catchError as it would be if the catch block returned an empty array
catchErrorReturnsEmpty(j, err) ==
    /\ thrown' = [thrown EXCEPT ![j] = err]
    /\ errorLog' = Append(errorLog, [site |-> siteConfigsArr[j], error |-> err])
    /\ currentSiteIndex' = currentSiteIndex + 1
    /\ completed' = Append(completed, j)
    /\ extractedData' = [extractedData EXCEPT ![j] = [null |-> FALSE, cars |-> <<>>]]
    /\ jobpc' = [jobpc EXCEPT ![j] = "close"]

\* catchError as it would be if the catch block rethrew the error
catchErrorRethrows(j, err) ==
    /\ thrown' = [thrown EXCEPT ![j] = err]
    /\ errorLog' = Append(errorLog, [site |-> siteConfigsArr[j], error |-> err])
    /\ currentSiteIndex' = currentSiteIndex + 1
    /\ completed' = Append(completed, j)
    /\ extractedData' = extractedData
    /\ jobpc' = [jobpc EXCEPT ![j] = "rejected"]

\* the catch block of processSite followed by the call of newPage.close()
\* in its finally block: log the error, count the job, return null
catchError(j, err) ==
    /\ thrown' = [thrown EXCEPT ![j] = err]
    /\ errorLog' = Append(errorLog, [site |-> siteConfigsArr[j], error |-> err])
    /\ currentSiteIndex' = Increment(currentSiteIndex)
    /\ completed' = Append(completed, j)
    /\ extractedData' = [extractedData EXCEPT ![j] = Null]
    /\ jobpc' = [jobpc EXCEPT ![j] = "close"]

\* an awaited operation of job j raises inside the try block
raises(j, err) ==
    /\ faults < faultLimit
    /\ faults' = faults + 1
    /\ catchError(j, err)

\* NewPage as it would be if login were called before the credentials check
NewPageLoginFirst(j, credentials) ==
    /\ jobpc[j] = "newPage"
    /\ page' = [page EXCEPT ![j] = "open"]
    /\ siteCredentials' = [siteCredentials EXCEPT ![siteConfigsArr[j]] = credentials]
    /\ steps' = [steps EXCEPT ![j] = Append(@, "login")]
    /\ IF credentials = "present"
       THEN /\ jobpc' = [jobpc EXCEPT ![j] = "login"]
            /\ UNCHANGED <<thrown, errorLog, currentSiteIndex, completed, extractedData>>
       ELSE catchError(j, "credentials")
    /\ UNCHANGED <<CONCURRENCY_LIMIT, faultLimit, response, onProgress, mainpc, i, results,
                   allCarData, stagehand, runError, skipFlag, progress, faults>>

\* await context.newPage() resolves; the credentials are checked and
\* siteConfig.login is called, or the check throws into the catch block
NewPage(j, credentials) ==
    /\ jobpc[j] = "newPage"
    /\ page' = [page EXCEPT ![j] = "open"]
    /\ siteCredentials' = [siteCredentials EXCEPT ![siteConfigsArr[j]] = credentials]
    /\ IF credentials = "present"
       THEN /\ steps' = [steps EXCEPT ![j] = Append(@, "login")]
            /\ jobpc' = [jobpc EXCEPT ![j] = "login"]
            /\ UNCHANGED <<thrown, errorLog, currentSiteIndex, completed, extractedData>>
       ELSE /\ catchError(j, "credentials")
            /\ UNCHANGED steps
    /\ UNCHANGED <<CONCURRENCY_LIMIT, faultLimit, response, onProgress, mainpc, i, results,
                   allCarData, stagehand, runError, skipFlag, progress, faults>>

\* await context.newPage() rejects: it is awaited before the try block, so
\* processSite rejects, Promise.all rejects and runInBatches and
\* scrapeAllSites reject with the same error unless they already have
NewPageFails(j) ==
    /\ jobpc[j] = "newPage"
    /\ faults < faultLimit
    /\ faults' = faults + 1
    /\ jobpc' = [jobpc EXCEPT ![j] = "rejected"]
    /\ thrown' = [thrown EXCEPT ![j] = "newPage"]
    /\ completed' = Append(completed, j)
    /\ IF mainpc = "awaitBatch"
       THEN /\ mainpc' = "rejected"
            /\ runError' = [site |-> siteConfigsArr[j], error |-> "newPage"]
            /\ response' = onRejected("newPage")
       ELSE UNCHANGED <<mainpc, runError, response>>
    /\ UNCHANGED <<CONCURRENCY_LIMIT, faultLimit, siteCredentials, onProgress, i, results,
                   allCarData, stagehand, page, extractedData, skipFlag, steps,
                   currentSiteIndex, progress, errorLog>>

\* await siteConfig.login(newPage, credentials) resolves
Login(j) ==
    /\ jobpc[j] = "login"
    /\ jobpc' = [jobpc EXCEPT ![j] = "waitForLoadState"]
    /\ UNCHANGED <<CONCURRENCY_LIMIT, faultLimit, response, siteCredentials, onProgress, mainpc, i, results,
                   allCarData, stagehand, runError, page, extractedData, skipFlag,
                   steps, thrown, currentSiteIndex, progress, errorLog, completed,
                   faults>>

\* LoginFails as it would be if login were awaited outside the try block
LoginFailsEscapes(j) ==
    /\ jobpc[j] = "login"
    /\ faults < faultLimit
    /\ faults' = faults + 1
    /\ jobpc' = [jobpc EXCEPT ![j] = "rejected"]
    /\ thrown' = [thrown EXCEPT ![j] = "login"]
    /\ completed' = Append(completed, j)
    /\ IF mainpc = "awaitBatch"
       THEN /\ mainpc' = "rejected"
            /\ runError' = [site |-> siteConfigsArr[j], error |-> "login"]
            /\ response' = onRejected("login")
       ELSE UNCHANGED <<mainpc, runError, response>>
    /\ UNCHANGED <<CONCURRENCY_LIMIT, faultLimit, siteCredentials, onProgress, i, results,
                   allCarData, stagehand, page, extractedData, skipFlag, steps,
                   currentSiteIndex, progress, errorLog>>

\* await siteConfig.login(newPage, credentials) rejects
LoginFails(j) ==
    /\ jobpc[j] = "login"
    /\ raises(j, "login")
    /\ UNCHANGED <<CONCURRENCY_LIMIT, faultLimit, response, siteCredentials, onProgress, mainpc, i, results,
                   allCarData, stagehand, runError, page, skipFlag, steps, progress>>

\* PageLoaded as it would be if extractCars were called before the filters
PageLoadedExtractsFirst(j) ==
    /\ jobpc[j] = "waitForLoadState"
    /\ steps' = [steps EXCEPT ![j] = Append(@, "extractCars")]
    /\ jobpc' = [jobpc EXCEPT ![j] = "extractCars"]
    /\ UNCHANGED <<CONCURRENCY_LIMIT, faultLimit, response, siteCredentials, onProgress,
                   mainpc, i, results, allCarData, stagehand, runError, page,
                   extractedData, skipFlag, thrown, currentSiteIndex, progress,
                   errorLog, completed, faults>>

\* waitForLoadState and waitForTimeout after login resolve; the job builds
\* the search URL and calls newPage.goto, or calls applyFilters at once
PageLoaded(j) ==
    /\ jobpc[j] = "waitForLoadState"
    /\ IF shouldNavigateToSearchUrl(j)
       THEN /\ steps' = [steps EXCEPT ![j] = Append(@, "buildSearchUrl")]
            /\ jobpc' = [jobpc EXCEPT ![j] = "goto"]
       ELSE /\ steps' = [steps EXCEPT ![j] = Append(@, "applyFilters")]
            /\ jobpc' = [jobpc EXCEPT ![j] = "applyFilters"]
    /\ UNCHANGED <<CONCURRENCY_LIMIT, faultLimit, response, siteCredentials, onProgress, mainpc, i, results,
                   allCarData, stagehand, runError, page, extractedData, skipFlag,
                   thrown, currentSiteIndex, progress, errorLog, completed, faults>>

\* waitForLoadState and waitForTimeout after login resolve and the
\* synchronous siteConfig.buildSearchUrl(searchParams) throws
BuildSearchUrlFails(j) ==
    /\ jobpc[j] = "waitForLoadState"
    /\ shouldNavigateToSearchUrl(j)
    /\ steps' = [steps EXCEPT ![j] = Append(@, "buildSearchUrl")]
    /\ raises(j, "buildSearchUrl")
    /\ UNCHANGED <<CONCURRENCY_LIMIT, faultLimit, response, siteCredentials, onProgress, mainpc, i, results,
                   allCarData, stagehand, runError, page, skipFlag, progress>>

\* a Playwright wait or navigation of the job (waitForLoadState,
\* waitForTimeout, goto) rejects
PageOperationFails(j) ==
    /\ jobpc[j] \in {"waitForLoadState", "goto"}
    /\ raises(j, jobpc[j])
    /\ UNCHANGED <<CONCURRENCY_LIMIT, faultLimit, response, siteCredentials, onProgress, mainpc, i, results,
                   allCarData, stagehand, runError, page, skipFlag, steps, progress>>

\* Goto as it would be if applyFilters were left out after the navigation
GotoSkipsFilters(j) ==
    /\ jobpc[j] = "goto"
    /\ steps' = [steps EXCEPT ![j] = Append(@, "extractCars")]
    /\ jobpc' = [jobpc EXCEPT ![j] = "extractCars"]
    /\ UNCHANGED <<CONCURRENCY_LIMIT, faultLimit, response, siteCredentials, onProgress,
                   mainpc, i, results, allCarData, stagehand, runError, page,
                   extractedData, skipFlag, thrown, currentSiteIndex, progress,
                   errorLog, completed, faults>>

\* newPage.goto(searchUrl) and waitForLoadState resolve; applyFilters is called
Goto(j) ==
    /\ jobpc[j] = "goto"
    /\ steps' = [steps EXCEPT ![j] = Append(@, "applyFilters")]
    /\ jobpc' = [jobpc EXCEPT ![j] = "applyFilters"]
    /\ UNCHANGED <<CONCURRENCY_LIMIT, faultLimit, response, siteCredentials, onProgress, mainpc, i, results,
                   allCarData, stagehand, runError, page, extractedData, skipFlag,
                   thrown, currentSiteIndex, progress, errorLog, completed, faults>>

\* await siteConfig.applyFilters(newPage, searchParams) resolves, having
\* flagged the page when the make or model is not offered; extractCars is called
ApplyFilters(j, skip) ==
    /\ jobpc[j] = "applyFilters"
    /\ skip => canSkip(j)
    /\ skipFlag' = [skipFlag EXCEPT ![j] = skip]
    /\ steps' = [steps EXCEPT ![j] = Append(@, "extractCars")]
    /\ jobpc' = [jobpc EXCEPT ![j] = "extractCars"]
    /\ UNCHANGED <<CONCURRENCY_LIMIT, faultLimit, response, siteCredentials, onProgress, mainpc, i, results,
                   allCarData, stagehand, runError, page, extractedData, thrown,
                   currentSiteIndex, progress, errorLog, completed, faults>>

\* await siteConfig.applyFilters(newPage, searchParams) rejects
ApplyFiltersFails(j) ==
    /\ jobpc[j] = "applyFilters"
    /\ ~emptyFilters(j)
    /\ raises(j, "applyFilters")
    /\ UNCHANGED <<CONCURRENCY_LIMIT, faultLimit, response, siteCredentials, onProgress, mainpc, i, results,
                   allCarData, stagehand, runError, page, skipFlag, steps, progress>>

\* await siteConfig.extractCars(newPage) resolves with an array: onProgress
\* is called when one was passed, the job is counted, extractedData is
\* returned through the finally block, which calls newPage.close()
ExtractCars(j, cars) ==
    /\ jobpc[j] = "extractCars"
    /\ cars \in (IF skipFlag[j] THEN {<<>>} ELSE CarLists(j))
    /\ extractedData' = [extractedData EXCEPT ![j] = Data(cars)]
    /\ progress' = emitProgress(j, cars)
    /\ response' = writeProgress(j, cars)
    /\ currentSiteIndex' = Increment(currentSiteIndex)
    /\ completed' = Append(completed, j)
    /\ jobpc' = [jobpc EXCEPT ![j] = "close"]
    /\ UNCHANGED <<CONCURRENCY_LIMIT, faultLimit, siteCredentials, onProgress, mainpc, i, results,
                   allCarData, stagehand, runError, page, skipFlag, steps, thrown,
                   errorLog, faults>>

\* await siteConfig.extractCars(newPage) rejects; on a flagged page
\* extractCars returns [] before it touches the page
ExtractCarsFails(j) ==
    /\ jobpc[j] = "extractCars"
    /\ ~skipFlag[j]
    /\ raises(j, "extractCars")
    /\ UNCHANGED <<CONCURRENCY_LIMIT, faultLimit, response, siteCredentials, onProgress, mainpc, i, results,
                   allCarData, stagehand, runError, page, skipFlag, steps, progress>>

\* batchResults as it would be if each value were pushed when its job completed
batchResultsAsCompleted ==
    LET done == SelectSeq(completed, LAMBDA j : j \in Slice(i))
    IN  [n \in 1..Cardinality(Slice(i)) |-> extractedData[done[n]]]

\* batchResults as it would be if the values were collected last task first
batchResultsReversed ==
    [n \in 1..Cardinality(Slice(i)) |-> extractedData[i + Cardinality(Slice(i)) + 1 - n]]

\* the values Promise.all resolves with: the batch's return values in task order
batchResults == [n \in 1..Cardinality(Slice(i)) |-> extractedData[i + n]]

\* batchSettled as it would be with Promise.race in place of Promise.all
batchSettledAny(pcs) == \E k \in Slice(i) : pcs[k] = "settled"

\* Promise.all(batch) resolves once every promise of the batch is fulfilled
batchSettled(pcs) == \A k \in Slice(i) : pcs[k] = "settled"

\* PageClose as it would be if processSite returned without closing its page
PageCloseLeaks(j) ==
    /\ jobpc[j] = "close"
    /\ page' = page
    /\ LET pcs == [jobpc EXCEPT ![j] = "settled"]
       IN  IF mainpc = "awaitBatch" /\ \A k \in Slice(i) : pcs[k] = "settled"
           THEN runInBatches(i + batchSize, results \o batchResults, pcs)
           ELSE /\ jobpc' = pcs
                /\ UNCHANGED <<mainpc, i, results, allCarData>>
    /\ UNCHANGED <<CONCURRENCY_LIMIT, faultLimit, response, siteCredentials, onProgress, stagehand, runError,
                   extractedData, skipFlag, steps, thrown, currentSiteIndex,
                   progress, errorLog, completed, faults>>

\* await newPage.close() of the finally block resolves: processSite settles
\* with its return value; when that fulfils the last promise of the batch
\* Promise.all resolves and runInBatches goes on with the next iteration
PageClose(j) ==
    /\ jobpc[j] = "close"
    /\ page' = [page EXCEPT ![j] = "closed"]
    /\ LET pcs == [jobpc EXCEPT ![j] = "settled"]
       IN  IF mainpc = "awaitBatch" /\ batchSettled(pcs)
           THEN runInBatches(i + batchSize, results \o batchResults, pcs)
           ELSE /\ jobpc' = pcs
                /\ UNCHANGED <<mainpc, i, results, allCarData>>
    /\ UNCHANGED <<CONCURRENCY_LIMIT, faultLimit, response, siteCredentials, onProgress, stagehand, runError,
                   extractedData, skipFlag, steps, thrown, currentSiteIndex,
                   progress, errorLog, completed, faults>>

Next ==
    \/ StagehandInit
    \/ StagehandInitFails
    \/ StagehandClose
    \/ \E j \in Jobs : \E credentials \in Credentials : NewPage(j, credentials)
    \/ \E j \in Jobs : NewPageFails(j)
    \/ \E j \in Jobs : Login(j)
    \/ \E j \in Jobs : LoginFails(j)
    \/ \E j \in Jobs : PageLoaded(j)
    \/ \E j \in Jobs : BuildSearchUrlFails(j)
    \/ \E j \in Jobs : PageOperationFails(j)
    \/ \E j \in Jobs : Goto(j)
    \/ \E j \in Jobs : \E skip \in BOOLEAN : ApplyFilters(j, skip)
    \/ \E j \in Jobs : ApplyFiltersFails(j)
    \/ \E j \in Jobs : \E cars \in CarLists(j) : ExtractCars(j, cars)
    \/ \E j \in Jobs : ExtractCarsFails(j)
    \/ \E j \in Jobs : PageClose(j)

Spec == Init /\ [][Next]_vars

\* ------------------------------------------------ requests of /api/scrape-stream
\* scrapeAllSites called by the /api/scrape-stream handler: a run does all a
\* run without a subscriber does and calls the handler's callback besides
InitStream == InitWith(0..MaxLimit, {"registered"}, MaxFaults)

SpecStream == InitStream /\ [][Next]_vars

\* ----------------------------------------------------- a subscriber that throws
\* await siteConfig.extractCars(newPage) resolves with an array and the
\* onProgress call that follows throws: the call sits inside the try block,
\* so the catch block takes the error and the job returns null
OnProgressFails(j, cars) ==
    /\ jobpc[j] = "extractCars"
    /\ onProgress = "raising"
    /\ cars \in (IF skipFlag[j] THEN {<<>>} ELSE CarLists(j))
    /\ progress' = emitProgress(j, cars)
    /\ raises(j, "onProgress")
    /\ UNCHANGED <<CONCURRENCY_LIMIT, faultLimit, response, siteCredentials, onProgress,
                   mainpc, i, results, allCarData, stagehand, runError, page,
                   skipFlag, steps>>

\* scrapeAllSites called with no callback, with the callback of
\* /api/scrape-stream or with a callback that may throw
InitAnySubscriber == InitWith(0..MaxLimit, {"none", "registered", "raising"}, MaxFaults)

NextAnySubscriber ==
    \/ Next
    \/ \E j \in Jobs : \E cars \in CarLists(j) : OnProgressFails(j, cars)

SpecAnySubscriber == InitAnySubscriber /\ [][NextAnySubscriber]_vars

\* ------------------------------------------------- a limit below one
\* Promise.all of an empty slice resolves at once: with a negative batchSize
\* the index never reaches tasks.length and the loop goes on for ever, one
\* empty slice after the other; MaxSpin caps the iterations followed
EmptyBatch ==
    /\ mainpc = "awaitBatch"
    /\ Slice(i) = {}
    /\ i + batchSize >= 0 - MaxSpin
    /\ runInBatches(i + batchSize, results \o batchResults, jobpc)
    /\ UNCHANGED <<CONCURRENCY_LIMIT, faultLimit, response, siteCredentials, onProgress,
                   stagehand, runError, page, extractedData, skipFlag, steps,
                   thrown, currentSiteIndex, progress, errorLog, completed, faults>>

\* scrapeAllSites called with CONCURRENCY_LIMIT set to a negative integer as
\* well: Number("-1") || 2 is -1
InitAnyLimit == InitWith((0 - MaxNegative)..MaxLimit, {"none"}, MaxFaults)

NextAnyLimit ==
    \/ Next
    \/ EmptyBatch

SpecAnyLimit == InitAnyLimit /\ [][NextAnyLimit]_vars

\* ------------------------------------------------------- every source may fail
\* a /api/scrape-stream request with CONCURRENCY_LIMIT unset in which an
\* awaited operation of every source may raise
InitAllMayFail == InitWith({0}, {"registered"}, totalSites)

SpecAllMayFail == InitAllMayFail /\ [][Next]_vars

\* ------------------------------------------------------------------ claims
\* the adapter functions processSite calls
AdapterSteps == {"login", "buildSearchUrl", "applyFilters", "extractCars"}

\* the jobs that caught or rejected with an error
Failed == { j \in Jobs : thrown[j] # "none" }

\* x is an element of the sequence seq
Contains(seq, x) == \E n \in 1..Len(seq) : seq[n] = x

\* C1: whichever adapter step of whichever source raises, processSite does
\* not reject: it goes on to return null (the failure outcome), null is what
\* runInBatches collects for that task, and neither runInBatches nor
\* scrapeAllSites rejects with an adapter's error.
C1_AdapterFailureReturnsNull ==
    /\ \A j \in Jobs : thrown[j] \in AdapterSteps =>
          /\ jobpc[j] \in {"close", "settled"}
          /\ extractedData[j] = Null
          /\ runError.site # siteConfigsArr[j]
          /\ (j <= Len(results) => results[j] = Null)
    /\ runError.error \notin AdapterSteps

\* a run that resolved although an adapter step of a settled job raised
C1_Witness ==
    /\ mainpc = "resolved"
    /\ \E j \in Jobs : thrown[j] \in AdapterSteps /\ jobpc[j] = "settled"
                       /\ results[j] = Null

\* C2: failure isolation. In a run where the login of exactly one source
\* raises and the other N-1 sources run through, scrapeAllSites does not
\* reject, it has gone on to compile the aggregate once all jobs settled,
\* and when it resolves the aggregate contains every car each of the other
\* sources extracted and none of the failing source, whose failure was
\* reported by console.error with the error it raised.
C2_FailureIsolation ==
    \A f \in Jobs : (Failed = {f} /\ thrown[f] = "login") =>
        /\ mainpc # "rejected"
        /\ (\A k \in Jobs : jobpc[k] = "settled") => mainpc \in {"closing", "resolved"}
        /\ mainpc = "resolved" =>
              /\ \A k \in Jobs \ {f} : \A n \in 1..Len(extractedData[k].cars) :
                    Contains(allCarData, extractedData[k].cars[n])
              /\ \A n \in 1..Len(allCarData) :
                    allCarData[n].source # siteConfigsArr[f]
              /\ Contains(errorLog, [site |-> siteConfigsArr[f], error |-> "login"])

\* a resolved run in which only the login of the first source raised and a
\* later source extracted cars
C2_Witness ==
    /\ mainpc = "resolved"
    /\ Failed = {1}
    /\ thrown[1] = "login"
    /\ \E k \in Jobs \ {1} : extractedData[k].cars # <<>>

\* C3: a job whose context.newPage() raises ends with the failure outcome
\* (null) like any other failed job, and neither processSite nor
\* scrapeAllSites rejects because of it.
C3_ContextFailureIsFailureOutcome ==
    \A j \in Jobs : thrown[j] = "newPage" =>
        /\ jobpc[j] \in {"close", "settled"}
        /\ extractedData[j] = Null
        /\ mainpc # "rejected"

\* C4: guaranteed release. A processSite call that has settled has closed
\* the page it created, on every exit path, and when scrapeAllSites has
\* resolved no page created by a job is open.
C4_PagesReleased ==
    /\ \A j \in Jobs : jobpc[j] \in {"settled", "rejected"} => page[j] # "open"
    /\ mainpc = "resolved" => \A j \in Jobs : page[j] = "closed"

\* a resolved run with one job on each exit path: missing credentials, an
\* adapter exception, a skip and a success
C4_Witness ==
    /\ mainpc = "resolved"
    /\ \E j \in Jobs : thrown[j] = "credentials" /\ page[j] = "closed"
    /\ \E j \in Jobs : thrown[j] \in AdapterSteps /\ page[j] = "closed"
    /\ \E j \in Jobs : skipFlag[j] /\ thrown[j] = "none" /\ page[j] = "closed"
    /\ \E j \in Jobs : extractedData[j].cars # <<>> /\ page[j] = "closed"

\* the group of job j: the iteration of the runInBatches loop that calls it
Group(j) == (j - 1) \div batchSize

\* processSite of job j has been called
Started(j) == jobpc[j] # "idle"

\* the promise of job j has settled, by fulfilment or by rejection
Settled(j) == jobpc[j] \in {"settled", "rejected"}

\* the jobs that have been started and have not settled
InFlight == { j \in Jobs : Started(j) /\ ~Settled(j) }

\* C5: group barrier. The jobs are started in consecutive groups of
\* batchSize jobs in submission order (the last may be smaller): the jobs of
\* a group are started together, and no job of a later group is started
\* before every job of the groups before it has settled.
C5_GroupBarrier ==
    \A b \in Jobs : Started(b) =>
        \A a \in Jobs :
            /\ Group(a) = Group(b) => Started(a)
            /\ Group(a) < Group(b) => Settled(a)

\* with groups of two, the fifth job, alone in the last group, is running
\* after a job of an earlier group failed
C5_Witness ==
    /\ batchSize = 2
    /\ jobpc[5] = "login"
    /\ \E j \in 1..4 : thrown[j] # "none"

\* C6: concurrency bound. The number of jobs started and not yet settled
\* never exceeds batchSize, also after a job of the group has raised.
C6_ConcurrencyBound == Cardinality(InFlight) <= batchSize

\* batchSize jobs in flight, one of which has already raised
C6_Witness ==
    /\ batchSize >= 2
    /\ Cardinality(InFlight) = batchSize
    /\ \E j \in InFlight : thrown[j] # "none"

\* C7: the completed-job counter never exceeds the number of jobs and has
\* reached it when scrapeAllSites terminates, whatever jobs failed (the
\* counter is only ever incremented, so it reaches that number once).
C7_CounterReachesTotal ==
    /\ currentSiteIndex <= totalSites
    /\ (mainpc \in {"resolved", "rejected"} /\ stagehand # "new") =>
          currentSiteIndex = totalSites

\* the calls of onProgress made for job j
Calls(j) == { n \in 1..Len(progress) : progress[n].siteName = siteConfigsArr[j] }

C9_ProgressOrdinals ==
    \A n \in 1..Len(progress) :
        /\ progress[n].totalSites = Len(siteConfigsArr)
        /\ progress[n].currentSite \in 1..Len(siteConfigsArr)
        /\ \A m \in 1..Len(progress) :
              m # n => progress[m].currentSite # progress[n].currentSite

\* the two jobs of the first group reported in the reverse of their
\* submission order
C9_Witness ==
    /\ Len(progress) >= 2
    /\ progress[1].siteName = siteConfigsArr[2]
    /\ progress[2].siteName = siteConfigsArr[1]

\* C10: the ordinal of each call of onProgress is the 1-based position at
\* which its job finished among all jobs of the run, and successive calls
\* carry strictly increasing ordinals.
C10_OrdinalIsCompletionPosition ==
    \A n \in 1..Len(progress) :
        /\ \E p \in 1..Len(completed) :
              /\ siteConfigsArr[completed[p]] = progress[n].siteName
              /\ progress[n].currentSite = p
        /\ n > 1 => progress[n - 1].currentSite < progress[n].currentSite

\* the value extractCars of job j returned to processSite, null when the job
\* did not get that far: when the subscriber threw, the array it was handed
Returned(j) ==
    IF jobpc[j] \notin {"close", "settled"} THEN Null
    ELSE IF thrown[j] = "none" THEN extractedData[j]
    ELSE IF thrown[j] = "onProgress"
         THEN Data(progress[CHOOSE n \in Calls(j) : TRUE].cars)
         ELSE Null

\* C11: progress emission is a side channel. Whether no subscriber is
\* registered, one is registered, or a registered one throws on a call, the
\* jobs are started in submission order and the aggregate a resolved run
\* returns is the concatenation of the arrays the adapters returned: the
\* subscriber has no part in either.
C11_ProgressIsSideChannel ==
    /\ \A b \in Jobs : Started(b) => \A a \in 1..b : Started(a)
    /\ mainpc = "resolved" => allCarData = Compile([j \in Jobs |-> Returned(j)])

\* the positions of response at which a call of one of the types was made
CallsOf(types) == { n \in 1..Len(response) : response[n].type \in types }

\* C12: streaming order. On /api/scrape-stream the calls on res are one
\* connected message first, then progress messages, then the terminal
\* message: no progress message is written after the terminal message or
\* after res.end(), also when scrapeAllSites rejected while another job of
\* the group was in flight.
C12_StreamingOrder ==
    onProgress = "registered" =>
        /\ CallsOf({"connected"}) = {1}
        /\ \A n \in CallsOf({"progress"}) : \A m \in 1..n :
              response[m].type \in {"connected", "progress"}

\* C13: exactly one terminal message. A /api/scrape-stream handler that has
\* finished has written exactly one of complete and error (complete when
\* scrapeAllSites resolved, error when it rejected) and has called res.end()
\* exactly once, right after it; before that it has written neither.
C13_ExactlyOneTerminal ==
    onProgress = "registered" =>
        IF mainpc \in {"resolved", "rejected"}
        THEN /\ Cardinality(CallsOf({"complete", "error"})) = 1
             /\ Cardinality(CallsOf({"end"})) = 1
             /\ \A n \in CallsOf({"complete", "error"}) :
                   /\ response[n].type = (IF mainpc = "resolved" THEN "complete" ELSE "error")
                   /\ CallsOf({"end"}) = {n + 1}
        ELSE CallsOf({"complete", "error", "end"}) = {}

\* a stream that ended with the error message after a progress message
C13_Witness ==
    /\ onProgress = "registered"
    /\ mainpc = "rejected"
    /\ CallsOf({"progress"}) # {}
    /\ CallsOf({"error"}) # {}
    /\ CallsOf({"end"}) # {}

\* the jobs that failed at an adapter step
FailedAtAdapter == { j \in Jobs : thrown[j] \in AdapterSteps }

\* C14: the error message is reserved for orchestration failures. However
\* many sources fail at an adapter step, all N included, that alone never
\* makes scrapeAllSites reject nor the stream end with error: an error
\* message names no adapter step, and a run whose only failures are adapter
\* failures resolves once its jobs have settled and ends the stream with
\* complete, whose results are empty when every source failed.
C14_ErrorOnlyForOrchestration ==
    onProgress = "registered" =>
        /\ \A n \in CallsOf({"error"}) :
              /\ response[n].error \notin AdapterSteps
              /\ stagehand = "new" \/ \E j \in Jobs : thrown[j] = "newPage"
        /\ (stagehand # "new" /\ Failed = FailedAtAdapter) =>
              /\ mainpc # "rejected"
              /\ CallsOf({"error"}) = {}
              /\ (\A j \in Jobs : jobpc[j] = "settled") => mainpc \in {"closing", "resolved"}
              /\ mainpc = "resolved" =>
                    \E n \in CallsOf({"complete"}) :
                        /\ response[n].cars = allCarData
                        /\ FailedAtAdapter = Jobs => response[n].cars = <<>>

\* a stream that ended with complete and no results after every one of the
\* N sources failed at an adapter step
C14_Witness ==
    /\ onProgress = "registered"
    /\ mainpc = "resolved"
    /\ FailedAtAdapter = Jobs
    /\ \E n \in CallsOf({"complete"}) : response[n].cars = <<>> /\ response[n].totalCars = 0

\* the cars the jobs of the sequence order returned, concatenated in that order
RECURSIVE CarsInOrder(_)
CarsInOrder(order) ==
    IF order = <<>> THEN <<>>
    ELSE extractedData[Head(order)].cars \o CarsInOrder(Tail(order))

\* the position of job j in the order of completion
Position(j) == CHOOSE p \in 1..Len(completed) : completed[p] = j

\* C15 as stated: the aggregate of a resolved run is the concatenation of the
\* successful jobs' cars in the order in which the jobs completed.
C15_CompletionOrder ==
    mainpc = "resolved" => allCarData = CarsInOrder(completed)

\* C15 amended: the aggregate of a resolved run is the concatenation of the
\* successful jobs' cars in submission order, the order of siteConfigs,
\* whatever the order in which the jobs completed.
C15_SubmissionOrder ==
    mainpc = "resolved" => allCarData = CarsInOrder([j \in Jobs |-> j])

\* a resolved run in which the second source completed before the first and
\* both extracted cars
C15_Witness ==
    /\ mainpc = "resolved"
    /\ extractedData[1].cars # <<>>
    /\ extractedData[2].cars # <<>>
    /\ Position(2) < Position(1)

\* the sources that have an item in the value scrapeAllSites returns
SourcesIn(aggregate) == { aggregate[n].source : n \in 1..Len(aggregate) }

Skipped == { j \in Jobs : skipFlag[j] /\ jobpc[j] \in {"close", "settled"} }

\* the items the value scrapeAllSites returns holds for job j
ItemsOf(j) == { n \in 1..Len(allCarData) : allCarData[n].source = siteConfigsArr[j] }

C18_SingleAggregationPoint ==
    /\ (\E j \in Jobs : ~Settled(j)) => allCarData = <<>>
    /\ mainpc \notin {"closing", "resolved"} => allCarData = <<>>
    /\ mainpc \in {"closing", "resolved"} =>
          /\ \A j \in Jobs : jobpc[j] = "settled"
          /\ Len(results) = totalSites
          /\ allCarData = Compile(results)

\* a resolved run whose aggregate holds cars of the first and of the last group
C18_Witness ==
    /\ mainpc = "resolved"
    /\ batchSize = 2
    /\ ItemsOf(1) # {}
    /\ ItemsOf(5) # {}

\* C19: scrapeAllSites rejects only before any job: when it has rejected, no
\* processSite call has been made, no page has been created and no adapter
\* step has been invoked.
C19_RejectsBeforeAnyJob ==
    mainpc = "rejected" =>
        \A j \in Jobs : ~Started(j) /\ page[j] = "none" /\ steps[j] = <<>>

\* nothing is pending any more: scrapeAllSites has settled and no job is in flight
Quiescent == mainpc \in {"resolved", "rejected"} /\ InFlight = {}

\* C20: termination. A run whose stagehand.init() resolved and whose awaited
\* operations have all returned or raised has settled with every one of the
\* N jobs terminal, whatever the concurrency limit.
C20_SettlesWithAllJobsTerminal ==
    (stagehand # "new" /\ Quiescent) => \A j \in Jobs : Settled(j)

\* the number of times job j invoked the adapter function step
Invocations(j, step) == Cardinality({ n \in 1..Len(steps[j]) : steps[j][n] = step })

\* the number of outcomes job j has yielded
Outcomes(j) == Cardinality({ p \in 1..Len(completed) : completed[p] = j })

\* the at-most-once half of C21: no adapter step of a source is invoked
\* twice and no job yields two outcomes
AtMostOnce ==
    \A j \in Jobs :
        /\ \A step \in AdapterSteps : Invocations(j, step) <= 1
        /\ Outcomes(j) <= 1

\* C21: every job is started exactly once per run and yields exactly one
\* outcome: no adapter step of a source is invoked twice, also after the
\* source failed, and when a run whose stagehand.init() resolved is over
\* every one of the N tasks has been invoked and has yielded its outcome.
C21_EveryJobExactlyOnce ==
    /\ AtMostOnce
    /\ (stagehand # "new" /\ Quiescent) =>
          \A j \in Jobs : Started(j) /\ Outcomes(j) = 1

\* the adapter functions a job that runs through invokes, in order
StepOrder(j) ==
    IF shouldNavigateToSearchUrl(j)
    THEN <<"login", "buildSearchUrl", "applyFilters", "extractCars">>
    ELSE <<"login", "applyFilters", "extractCars">>

\* the adapter function job j invoked last
LastStep(j) == steps[j][Len(steps[j])]

\* C22: step ordering inside one job. The adapter functions a job has
\* invoked are a prefix of login, (buildSearchUrl,) applyFilters,
\* extractCars; while one of them is pending it is the last one invoked, so
\* each begins after the one before it completed; and after a step raised
\* it stays the last one: no later adapter step of the job is invoked.
C22_StepOrdering ==
    \A j \in Jobs :
        /\ Len(steps[j]) <= Len(StepOrder(j))
        /\ steps[j] = SubSeq(StepOrder(j), 1, Len(steps[j]))
        /\ jobpc[j] \in {"login", "applyFilters", "extractCars"} => LastStep(j) = jobpc[j]
        /\ thrown[j] \in AdapterSteps => LastStep(j) = thrown[j]
        /\ thrown[j] = "waitForLoadState" => steps[j] = <<"login">>
        /\ thrown[j] = "goto" => steps[j] = <<"login", "buildSearchUrl">>

\* a job of a source with a search URL has run through all four steps and
\* the applyFilters of another job has raised after its login
C22_Witness ==
    /\ \E j \in Jobs : steps[j] = <<"login", "buildSearchUrl", "applyFilters", "extractCars">>
                       /\ jobpc[j] = "settled"
    /\ \E j \in Jobs : thrown[j] = "applyFilters" /\ steps[j] = <<"login", "applyFilters">>
                       /\ jobpc[j] = "settled"

\* C23 as stated: navigation and refinement are alternatives. A job of a
\* source with a search URL builds the URL and does not invoke applyFilters;
\* a job of any other source invokes applyFilters and builds no URL.
C23_NavigationOrFilters ==
    \A j \in Jobs :
        IF shouldNavigateToSearchUrl(j)
        THEN Invocations(j, "applyFilters") = 0
        ELSE Invocations(j, "buildSearchUrl") = 0

\* C23 amended: applyFilters is invoked by every job that gets as far as
\* extractCars, for a source with a search URL after the navigation to it
\* (there applyFilters is the empty function: it neither raises nor flags
\* the page); only a job of a source with a search URL builds a URL.
C23_FiltersAfterNavigation ==
    \A j \in Jobs :
        /\ Invocations(j, "extractCars") = 1 => Invocations(j, "applyFilters") = 1
        /\ IF shouldNavigateToSearchUrl(j)
           THEN /\ Invocations(j, "applyFilters") = 1 => Invocations(j, "buildSearchUrl") = 1
                /\ thrown[j] # "applyFilters"
                /\ ~skipFlag[j]
           ELSE Invocations(j, "buildSearchUrl") = 0

\* a job of a source with a search URL has navigated, invoked applyFilters
\* and extracted cars, and a job of a source without one has extracted cars
C23_Witness ==
    /\ \E j \in Jobs : /\ shouldNavigateToSearchUrl(j)
                       /\ jobpc[j] = "settled"
                       /\ Invocations(j, "buildSearchUrl") = 1
                       /\ Invocations(j, "applyFilters") = 1
                       /\ extractedData[j].cars # <<>>
    /\ \E j \in Jobs : /\ ~shouldNavigateToSearchUrl(j)
                       /\ jobpc[j] = "settled"
                       /\ Invocations(j, "applyFilters") = 1
                       /\ extractedData[j].cars # <<>>

\* siteConfig.login of job j has returned: its session is stored in the
\* browser context of the job's page
LoggedIn(j) == Invocations(j, "login") = 1 /\ jobpc[j] # "login" /\ thrown[j] # "login"

\* the sites whose session the page of job j can see: a browser context
\* keeps one cookie store for all its pages
SessionsVisible(j) ==
    { siteConfigsArr[k] : k \in { a \in Jobs : LoggedIn(a) /\ pageContext(a) = pageContext(j) } }

\* C24: context isolation. No two jobs hold the same browser context, and
\* the session a job's login stored is not visible to the page of another
\* job of the run.
C24_ContextIsolation ==
    \A a, b \in Jobs : (a # b /\ page[a] # "none" /\ page[b] = "open") =>
        /\ pageContext(a) # pageContext(b)
        /\ siteConfigsArr[a] \notin SessionsVisible(b)

\* the aggregate the adapters' return values determine
Payload == Compile([j \in Jobs |-> Returned(j)])

\* C25: /api/scrape runs the same orchestration as /api/scrape-stream. It
\* writes no SSE message and sends exactly one response once scrapeAllSites
\* has settled and none before: status 500 with success false and the error
\* exactly when scrapeAllSites rejected, success true otherwise, with as
\* data the aggregate the adapters' return values determine, which is also
\* what the results of the stream's complete message are.
C25_ScrapeMatchesStream ==
    /\ onProgress = "none" =>
          IF mainpc \in {"resolved", "rejected"}
          THEN /\ Len(response) = 1
               /\ response[1].type = "json"
               /\ response[1].status = (IF mainpc = "rejected" THEN 500 ELSE 200)
               /\ response[1].success = (mainpc = "resolved")
               /\ response[1].error = runError.error
               /\ mainpc = "resolved" => response[1].cars = Payload
          ELSE response = <<>>
    /\ (onProgress = "registered" /\ mainpc = "resolved") =>
          \A n \in CallsOf({"complete"}) : response[n].cars = Payload

\* a /api/scrape request answered with cars after one of its sources failed
C25_Witness ==
    /\ onProgress = "none"
    /\ mainpc = "resolved"
    /\ Failed # {}
    /\ response[1].cars # <<>>

\* the fixed array a deterministic stub adapter of job j returns
Stub(j) == [k \in 1..MaxCars |-> Car(j, k)]

\* the number of times x occurs in the sequence seq
Count(seq, x) == Cardinality({ n \in 1..Len(seq) : seq[n] = x })

\* C26: idempotence. A run in which every adapter returned its stub's fixed
\* array resolves with an aggregate and with per-source results that depend
\* on nothing else: each car of each stub occurs in the aggregate exactly
\* once and nothing else does, and the result of each source is its stub's
\* array, whatever the concurrency limit and the order in which the jobs
\* completed. Two such runs therefore agree.
C26_Idempotence ==
    (mainpc = "resolved" /\ \A j \in Jobs : Returned(j) = Data(Stub(j))) =>
        /\ Len(allCarData) = totalSites * MaxCars
        /\ \A j \in Jobs : \A k \in 1..MaxCars : Count(allCarData, Car(j, k)) = 1
        /\ \A j \in Jobs : results[j] = Data(Stub(j))

\* a resolved run of stubs in which the jobs of the first group completed in
\* the reverse of their submission order
C26_Witness ==
    /\ mainpc = "resolved"
    /\ batchSize = 2
    /\ \A j \in Jobs : Returned(j) = Data(Stub(j))
    /\ Position(2) < Position(1)

\* C27: the session opened by stagehand.init() is closed on every exit:
\* when scrapeAllSites has resolved or rejected after init succeeded,
\* stagehand.close() has been called, and it is never called before that.
C27_SessionClosedOnEveryExit ==
    /\ (mainpc \in {"resolved", "rejected"} /\ stagehand # "new") => stagehand = "closed"
    /\ stagehand = "closed" => mainpc = "resolved"

\* the cars of the progress messages among calls, concatenated in the order written
RECURSIVE Streamed(_)
Streamed(calls) ==
    IF calls = <<>> THEN <<>>
    ELSE (IF Head(calls).type = "progress" THEN Head(calls).cars ELSE <<>>)
         \o Streamed(Tail(calls))

\* the sequences a and b hold the same elements the same number of times
SameMultiset(a, b) ==
    /\ Len(a) = Len(b)
    /\ \A n \in 1..Len(a) : Count(a, a[n]) = Count(b, a[n])

\* C28: streamed items and the final aggregate agree. In a stream that
\* ended with complete, the cars of all progress messages together are, as
\* a multiset, the results of the complete message, and totalCars is their
\* number.
C28_StreamedEqualsAggregate ==
    onProgress = "registered" =>
        \A n \in CallsOf({"complete"}) :
            /\ SameMultiset(Streamed(response), response[n].cars)
            /\ response[n].totalCars = Len(response[n].cars)

\* a stream that ended with complete after a source failed and after the
\* first two sources streamed their cars in the reverse of the order of the results
C28_Witness ==
    /\ onProgress = "registered"
    /\ CallsOf({"complete"}) # {}
    /\ Failed # {}
    /\ extractedData[1].cars # <<>>
    /\ extractedData[2].cars # <<>>
    /\ Position(2) < Position(1)

\* the jobs that went through the try block of processSite to its end
Counted == { j \in Jobs : jobpc[j] \in {"close", "settled"} }

\* C29: a job whose source has no usable credentials ends as a failure
\* (null, reported by console.error) without having invoked any adapter
\* step; it is counted once by the completed-job counter, and when it has
\* settled its page is closed.
C29_MissingCredentials ==
    /\ currentSiteIndex = Cardinality(Counted)
    /\ \A j \in Jobs : thrown[j] = "credentials" =>
          /\ siteCredentials[siteConfigsArr[j]] = "missing"
          /\ steps[j] = <<>>
          /\ extractedData[j] = Null
          /\ j \in Counted
          /\ Outcomes(j) = 1
          /\ Contains(errorLog, [site |-> siteConfigsArr[j], error |-> "credentials"])
          /\ page[j] = (IF jobpc[j] = "settled" THEN "closed" ELSE "open")
          /\ (j <= Len(results) => results[j] = Null)

\* a resolved run in which the credentials of a source were missing
C29_Witness ==
    /\ mainpc = "resolved"
    /\ currentSiteIndex = totalSites
    /\ \E j \in Jobs : thrown[j] = "credentials" /\ page[j] = "closed" /\ steps[j] = <<>>

\* C30: the group size runInBatches uses is a positive integer, 2 when
\* CONCURRENCY_LIMIT is unset, non-numeric or 0, and for every configured
\* integer the loop index only grows from 0, so that when runInBatches has
\* returned every task has been sliced into exactly one group and invoked.
C30_GroupSizePositive ==
    /\ batchSize >= 1
    /\ CONCURRENCY_LIMIT = 0 => batchSize = 2
    /\ i >= 0
    /\ \A j \in Jobs : Started(j) => \A a \in 1..j : Group(a) = Group(j) => Started(a)
    /\ mainpc \in {"closing", "resolved"} => \A j \in Jobs : Outcomes(j) = 1

====
